---------------------------- MODULE Spec2Model ----------------------------
(***************************************************************************)
(* serde_jcs: the JCS (RFC 8785) formatter of src/src/ser.rs.              *)
(*                                                                         *)
(* JcsFormatter is a serde_json Formatter that keeps a stack of Entry      *)
(* frames, one per open object.  Every write goes through scope(): to the  *)
(* writer when no frame is open, otherwise into the top frame's next_key   *)
(* or next_val.  end_object_value moves the pair into the frame's map and  *)
(* end_object pops the frame and writes the map out in the map's order.    *)
(*                                                                         *)
(* Bytes are numbers 0..255, text is a sequence of Unicode code points.    *)
(***************************************************************************)
EXTENDS Integers, Sequences, FiniteSets, TLC

VARIABLES
  stack,    \* JcsFormatter.0 : Vec<Entry>, last element is the top frame
  writer,   \* the Vec<u8> the Serializer writes to
  result,   \* outcome of the last handler: "ok", "err" (io::Error) or "panic"
  last,     \* the last handler called, <<name, argument>>
  prev,     \* stack and writer as they were before the last handler
  todo,     \* events the Serializer has still to issue for the current value
  queue,    \* values still to be passed to to_vec
  outs,     \* what the finished to_vec calls returned
  value,    \* the value of the current to_vec call
  mode,     \* who calls the handlers: "driven", "events" or "scalar"
  steps,    \* handlers called so far (direct calls)
  writes,   \* scalar writes called so far (direct calls)
  begun,    \* begin_object calls this formatter has returned Ok from
  ended     \* end_object calls this formatter has returned Ok from

vars ==
  <<stack, writer, result, last, prev, todo, queue, outs, value, mode, steps, writes,
    begun, ended>>

(***************************************************************************)
(* Bounds of the model.                                                    *)
(***************************************************************************)
MaxEvents == 4
MaxWrites == 1
MaxMembers == 2
MaxItems == 3

(***************************************************************************)
(* Bytes and text.                                                         *)
(***************************************************************************)
\* Ord for Vec<u8>: lexicographic, a strict prefix is smaller.
RECURSIVE ByteLess(_, _)
ByteLess(a, b) ==
  IF b = <<>> THEN FALSE
  ELSE IF a = <<>> THEN TRUE
  ELSE IF Head(a) # Head(b) THEN Head(a) < Head(b)
  ELSE ByteLess(Tail(a), Tail(b))

\* str::as_bytes of one char: its UTF-8 encoding.
Utf8(cp) ==
  IF cp < 128 THEN <<cp>>
  ELSE IF cp < 2048 THEN <<192 + (cp \div 64), 128 + (cp % 64)>>
  ELSE IF cp < 65536 THEN
    <<224 + (cp \div 4096), 128 + ((cp \div 64) % 64), 128 + (cp % 64)>>
  ELSE
    <<240 + (cp \div 262144), 128 + ((cp \div 4096) % 64),
      128 + ((cp \div 64) % 64), 128 + (cp % 64)>>

RECURSIVE AsBytes(_)
AsBytes(s) == IF s = <<>> THEN <<>> ELSE Utf8(Head(s)) \o AsBytes(Tail(s))

\* itoa: the base-10 digits of n, '-' first for a negative n.
RECURSIVE Digits(_)
Digits(n) == IF n < 10 THEN <<48 + n>> ELSE Append(Digits(n \div 10), 48 + (n % 10))

Itoa(n) == IF n < 0 THEN <<45>> \o Digits(0 - n) ELSE Digits(n)

(***************************************************************************)
(* Entry: one frame.  object is the map, kept as the sequence of its       *)
(* <<key, val>> pairs in the map's iteration order.                        *)
(***************************************************************************)
\* Entry::new(): an empty map, empty buffers, the key not complete.
EntryNew == [object |-> <<>>, next_key |-> <<>>, next_val |-> <<>>, complete |-> FALSE]

\* The map's insert: replaces the value of an equal key, otherwise puts the
\* pair at its place in key order.
RECURSIVE MapInsert(_, _, _)
MapInsert(obj, key, val) ==
  IF obj = <<>> THEN <<<<key, val>>>>
  ELSE IF Head(obj)[1] = key THEN <<<<key, val>>>> \o Tail(obj)
  ELSE IF ByteLess(key, Head(obj)[1]) THEN <<<<key, val>>>> \o obj
  ELSE <<Head(obj)>> \o MapInsert(Tail(obj), key, val)

(***************************************************************************)
(* The handlers.  Each takes the formatter's stack and the writer and      *)
(* gives back both with the io::Result.                                    *)
(***************************************************************************)
Ret(stk, w, res) == [stack |-> stk, writer |-> w, res |-> res]

\* scope() picking the first frame of the stack, not the last.
ScopeWrite_first_frame(stk, w, bytes) ==
  IF stk = <<>> THEN Ret(stk, w \o bytes, "ok")
  ELSE IF stk[1].complete
    THEN Ret([stk EXCEPT ![1].next_val = @ \o bytes], w, "ok")
    ELSE Ret([stk EXCEPT ![1].next_key = @ \o bytes], w, "ok")

\* scope(writer).write_all(bytes)
ScopeWrite(stk, w, bytes) ==
  IF stk = <<>> THEN Ret(stk, w \o bytes, "ok")
  ELSE IF stk[Len(stk)].complete
    THEN Ret([stk EXCEPT ![Len(stk)].next_val = @ \o bytes], w, "ok")
    ELSE Ret([stk EXCEPT ![Len(stk)].next_key = @ \o bytes], w, "ok")

write_null(stk, w) == ScopeWrite(stk, w, <<110, 117, 108, 108>>)

write_bool(stk, w, b) ==
  IF b THEN ScopeWrite(stk, w, <<116, 114, 117, 101>>)
  ELSE ScopeWrite(stk, w, <<102, 97, 108, 115, 101>>)

HEX == <<48, 49, 50, 51, 52, 53, 54, 55, 56, 57, 97, 98, 99, 100, 101, 102>>

\* serialize with the two nibbles the other way round.
serialize_swapped(control) ==
  <<92, 117, 48, 48, HEX[(control % 16) + 1], HEX[(control \div 16) + 1]>>

\* serialize with the code written in decimal digits, not in hex.
serialize_decimal(control) ==
  <<92, 117, 48, 48, 48 + (control \div 10), 48 + (control % 10)>>

serialize(control) ==
  <<92, 117, 48, 48, HEX[(control \div 16) + 1], HEX[(control % 16) + 1]>>

write_char_escape(stk, w, escape) ==
  CASE escape[1] = "Quote" -> ScopeWrite(stk, w, <<92, 34>>)
    [] escape[1] = "ReverseSolidus" -> ScopeWrite(stk, w, <<92, 92>>)
    [] escape[1] = "Solidus" -> ScopeWrite(stk, w, <<92, 47>>)
    [] escape[1] = "Backspace" -> ScopeWrite(stk, w, <<92, 98>>)
    [] escape[1] = "FormFeed" -> ScopeWrite(stk, w, <<92, 102>>)
    [] escape[1] = "LineFeed" -> ScopeWrite(stk, w, <<92, 110>>)
    [] escape[1] = "CarriageReturn" -> ScopeWrite(stk, w, <<92, 114>>)
    [] escape[1] = "Tab" -> ScopeWrite(stk, w, <<92, 116>>)
    [] escape[1] = "AsciiControl" -> ScopeWrite(stk, w, serialize(escape[2]))

\* todo!(): the call panics.
write_number_str(stk, w, text) == Ret(stk, w, "panic")

write_string_fragment(stk, w, fragment) == ScopeWrite(stk, w, AsBytes(fragment))

\* CompactFormatter.write_i8 .. write_u64 on the scope: itoa.
write_int(stk, w, n) == ScopeWrite(stk, w, Itoa(n))

\* f32::classify / f64::classify of the sampled floats.
classify(f) ==
  CASE f \in {"NaN"} -> "Nan"
    [] f \in {"+Inf", "-Inf"} -> "Infinite"
    [] f \in {"+0", "-0"} -> "Zero"
    [] f \in {"5e-324"} -> "Subnormal"
    [] OTHER -> "Normal"

\* ryu_js::Buffer::format_finite of the sampled floats.
format_finite(f) ==
  CASE f = "1.0" -> <<49>>
    [] f = "0.1" -> <<48, 46, 49>>
    [] f = "-1.5" -> <<45, 49, 46, 53>>
    [] f = "1e21" -> <<49, 101, 43, 50, 49>>
    [] f = "5e-324" -> <<53, 101, 45, 51, 50, 52>>

\* write_float writing null for a non-finite value, as CompactFormatter does.
write_float_null(stk, w, f) ==
  CASE classify(f) \in {"Nan", "Infinite"} -> ScopeWrite(stk, w, <<110, 117, 108, 108>>)
    [] classify(f) = "Zero" -> ScopeWrite(stk, w, <<48>>)
    [] OTHER -> ScopeWrite(stk, w, format_finite(f))

\* write_float handing a zero to the number formatter, which keeps its sign.
write_float_signed_zero(stk, w, f) ==
  CASE classify(f) \in {"Nan", "Infinite"} -> Ret(stk, w, "err")
    [] classify(f) = "Zero" -> ScopeWrite(stk, w, IF f = "-0" THEN <<45, 48>> ELSE <<48>>)
    [] OTHER -> ScopeWrite(stk, w, format_finite(f))

write_float(stk, w, f) ==
  CASE classify(f) \in {"Nan", "Infinite"} -> Ret(stk, w, "err")
    [] classify(f) = "Zero" -> ScopeWrite(stk, w, <<48>>)
    [] OTHER -> ScopeWrite(stk, w, format_finite(f))

begin_string(stk, w) == ScopeWrite(stk, w, <<34>>)

end_string(stk, w) == ScopeWrite(stk, w, <<34>>)

begin_array(stk, w) == ScopeWrite(stk, w, <<91>>)

end_array(stk, w) == ScopeWrite(stk, w, <<93>>)

\* begin_array_value writing to the writer, not through scope().
begin_array_value_to_writer(stk, w, first) ==
  IF first THEN Ret(stk, w, "ok") ELSE Ret(stk, w \o <<44>>, "ok")

begin_array_value(stk, w, first) ==
  IF first THEN ScopeWrite(stk, w, <<>>) ELSE ScopeWrite(stk, w, <<44>>)

end_array_value(stk, w) == ScopeWrite(stk, w, <<>>)

\* begin_object pushing the frame first and writing the brace after.
begin_object_push_first(stk, w) == ScopeWrite(Append(stk, EntryNew), w, <<123>>)

\* begin_object writing the brace to the writer, not through scope().
begin_object_to_writer(stk, w) == Ret(Append(stk, EntryNew), w \o <<123>>, "ok")

begin_object(stk, w) ==
  LET r == ScopeWrite(stk, w, <<123>>)
  IN  Ret(Append(r.stack, EntryNew), r.writer, "ok")

\* The loop of end_object writing the comma after each pair, not before.
RECURSIVE Members_comma_after(_, _)
Members_comma_after(obj, first) ==
  IF obj = <<>> THEN <<>>
  ELSE Head(obj)[1] \o <<58>> \o Head(obj)[2] \o <<44>>
       \o Members_comma_after(Tail(obj), FALSE)

\* What the loop of end_object writes for the map, and the closing brace.
RECURSIVE Members(_, _)
Members(obj, first) ==
  IF obj = <<>> THEN <<>>
  ELSE (IF first THEN <<>> ELSE <<44>>) \o Head(obj)[1] \o <<58>> \o Head(obj)[2]
       \o Members(Tail(obj), FALSE)

\* end_object writing to the writer, not through scope().
end_object_to_writer(stk, w) ==
  IF stk = <<>> THEN Ret(stk, w, "err")
  ELSE LET entry == stk[Len(stk)]
           rest == SubSeq(stk, 1, Len(stk) - 1)
       IN  Ret(rest, w \o Members(entry.object, TRUE) \o <<125>>, "ok")

\* end_object closing an object that was never opened, as CompactFormatter does.
end_object_unchecked(stk, w) ==
  IF stk = <<>> THEN Ret(stk, w \o <<125>>, "ok")
  ELSE LET entry == stk[Len(stk)]
           rest == SubSeq(stk, 1, Len(stk) - 1)
       IN  ScopeWrite(rest, w, Members(entry.object, TRUE) \o <<125>>)

\* end_object reading the top frame in place, not popping it.
end_object_keeps_frame(stk, w) ==
  IF stk = <<>> THEN Ret(stk, w, "err")
  ELSE LET entry == stk[Len(stk)]
       IN  ScopeWrite(stk, w, Members(entry.object, TRUE) \o <<125>>)

end_object(stk, w) ==
  IF stk = <<>> THEN Ret(stk, w, "err")
  ELSE LET entry == stk[Len(stk)]
           rest == SubSeq(stk, 1, Len(stk) - 1)
       IN  ScopeWrite(rest, w, Members(entry.object, TRUE) \o <<125>>)

begin_object_key(stk, w, first) ==
  IF stk = <<>> THEN Ret(stk, w, "err")
  ELSE Ret([stk EXCEPT ![Len(stk)].complete = FALSE], w, "ok")

end_object_key(stk, w) ==
  IF stk = <<>> THEN Ret(stk, w, "err")
  ELSE Ret([stk EXCEPT ![Len(stk)].complete = TRUE], w, "ok")

begin_object_value(stk, w) == Ret(stk, w, "ok")

\* end_object_value with next_key copied, not taken.
end_object_value_keeps_key(stk, w) ==
  IF stk = <<>> THEN Ret(stk, w, "err")
  ELSE LET entry == stk[Len(stk)]
       IN  Ret([stk EXCEPT ![Len(stk)] =
                  [@ EXCEPT !.object = MapInsert(entry.object, entry.next_key, entry.next_val),
                            !.next_val = <<>>]],
               w, "ok")

\* end_object_value with next_val copied, not taken.
end_object_value_copies(stk, w) ==
  IF stk = <<>> THEN Ret(stk, w, "err")
  ELSE LET entry == stk[Len(stk)]
       IN  Ret([stk EXCEPT ![Len(stk)] =
                  [@ EXCEPT !.object = MapInsert(entry.object, entry.next_key, entry.next_val),
                            !.next_key = <<>>]],
               w, "ok")

\* end_object_value inserting clones of next_key and next_val, taking neither.
end_object_value_clones(stk, w) ==
  IF stk = <<>> THEN Ret(stk, w, "err")
  ELSE LET entry == stk[Len(stk)]
       IN  Ret([stk EXCEPT ![Len(stk)].object =
                  MapInsert(entry.object, entry.next_key, entry.next_val)],
               w, "ok")

end_object_value(stk, w) ==
  IF stk = <<>> THEN Ret(stk, w, "err")
  ELSE LET entry == stk[Len(stk)]
       IN  Ret([stk EXCEPT ![Len(stk)] =
                  [@ EXCEPT !.object = MapInsert(entry.object, entry.next_key, entry.next_val),
                            !.next_key = <<>>,
                            !.next_val = <<>>]],
               w, "ok")

(***************************************************************************)
(* The Serializer.  to_writer hands the formatter to serde_json's          *)
(* Serializer, which walks the value and calls the handlers.  A value is   *)
(*   <<"null">>  <<"bool", b>>  <<"int", handler, n>>  <<"float", handler, f>> *)
(*   <<"str", text>>  <<"arr", items>>  <<"obj", <<key, val>> pairs>>      *)
(*   <<"raw", bytes>>, a RawValue                                          *)
(* and an event is <<handler, argument>>.                                  *)
(***************************************************************************)
None == <<"none">>

\* The CharEscape serde_json picks for a char of a string, "" for none.
EscapeOf(cp) ==
  CASE cp = 34 -> <<"Quote", 0>>
    [] cp = 92 -> <<"ReverseSolidus", 0>>
    [] cp = 8 -> <<"Backspace", 0>>
    [] cp = 9 -> <<"Tab", 0>>
    [] cp = 10 -> <<"LineFeed", 0>>
    [] cp = 12 -> <<"FormFeed", 0>>
    [] cp = 13 -> <<"CarriageReturn", 0>>
    [] cp < 32 -> <<"AsciiControl", cp>>
    [] OTHER -> <<"", 0>>

\* format_escaped_str_contents: runs of plain chars as fragments, an escape
\* for each char that needs one.
RECURSIVE Contents(_, _)
Contents(s, run) ==
  LET flush == IF run = <<>> THEN <<>> ELSE <<<<"write_string_fragment", run>>>>
  IN  IF s = <<>> THEN flush
      ELSE IF EscapeOf(Head(s))[1] = "" THEN Contents(Tail(s), Append(run, Head(s)))
      ELSE flush \o <<<<"write_char_escape", EscapeOf(Head(s))>>>> \o Contents(Tail(s), <<>>)

StrEvents(s) == <<<<"begin_string", 0>>>> \o Contents(s, <<>>) \o <<<<"end_string", 0>>>>

\* MapKeySerializer: a string key as a string, an integer key between quotes.
KeyEvents(k) ==
  IF k[1] = "str" THEN StrEvents(k[2])
  ELSE <<<<"begin_string", 0>>, <<k[2], k[3]>>, <<"end_string", 0>>>>

RECURSIVE Events(_), ArrEvents(_, _), ObjEvents(_, _)
Events(v) ==
  CASE v[1] = "null" -> <<<<"write_null", 0>>>>
    [] v[1] = "bool" -> <<<<"write_bool", v[2]>>>>
    [] v[1] = "int" -> <<<<v[2], v[3]>>>>
    [] v[1] = "float" -> <<<<v[2], v[3]>>>>
    [] v[1] = "str" -> StrEvents(v[2])
    [] v[1] = "arr" ->
         <<<<"begin_array", 0>>>> \o ArrEvents(v[2], TRUE) \o <<<<"end_array", 0>>>>
    [] v[1] = "obj" ->
         <<<<"begin_object", 0>>>> \o ObjEvents(v[2], TRUE) \o <<<<"end_object", 0>>>>
    [] v[1] = "raw" -> <<<<"write_raw_fragment", v[2]>>>>

ArrEvents(items, first) ==
  IF items = <<>> THEN <<>>
  ELSE <<<<"begin_array_value", first>>>> \o Events(Head(items))
       \o <<<<"end_array_value", 0>>>> \o ArrEvents(Tail(items), FALSE)

ObjEvents(members, first) ==
  IF members = <<>> THEN <<>>
  ELSE <<<<"begin_object_key", first>>>> \o KeyEvents(Head(members)[1])
       \o <<<<"end_object_key", 0>>, <<"begin_object_value", 0>>>>
       \o Events(Head(members)[2])
       \o <<<<"end_object_value", 0>>>> \o ObjEvents(Tail(members), FALSE)

(***************************************************************************)
(* Inputs.                                                                 *)
(***************************************************************************)
Seqs(S, n) == UNION {[1..k -> S] : k \in 0..n}

VStr(s) == <<"str", s>>
VInt(n) == <<"int", "write_i32", n>>
VObj(m) == <<"obj", m>>
VArr(a) == <<"arr", a>>

\* Sampled arguments.  TLC's integers are 32 bits wide, so the 64-bit handlers
\* are sampled below 2^31; itoa is the same code for every width.
I8s == {-128, 0, 127}
I16s == {-32768, 32767}
I32s == {-2147483647, 1, 2, 3, 2147483647}
I64s == {-1, 9000000}
U8s == {0, 255}
U16s == {65535}
U32s == {2147483647}
U64s == {7, 1000}
F32s == {"NaN", "+Inf", "-Inf", "+0", "-0", "1.0"}
F64s == {"NaN", "+Inf", "-Inf", "+0", "-0", "0.1", "1e21", "5e-324", "-1.5"}
Controls == (0..31) \ {8, 9, 10, 12, 13}
Escapes ==
  {<<e, 0>> : e \in {"Quote", "ReverseSolidus", "Solidus", "Backspace", "FormFeed",
                     "LineFeed", "CarriageReturn", "Tab"}}
  \cup {<<"AsciiControl", c>> : c \in Controls}
Fragments == {<<97>>, <<97, 233, 8364>>, <<57344, 65536>>}

\* Every char serde_json escapes, a plain one on each side of it.
EscapedStrings == {<<120, c, 121>> : c \in (0..31) \cup {34, 92, 47}}

Scalars ==
  {<<"null">>, <<"bool", TRUE>>, <<"bool", FALSE>>}
  \cup {<<"int", "write_i8", n>> : n \in I8s}
  \cup {<<"int", "write_i16", n>> : n \in I16s}
  \cup {<<"int", "write_i32", n>> : n \in I32s}
  \cup {<<"int", "write_i64", n>> : n \in I64s}
  \cup {<<"int", "write_u8", n>> : n \in U8s}
  \cup {<<"int", "write_u16", n>> : n \in U16s}
  \cup {<<"int", "write_u32", n>> : n \in U32s}
  \cup {<<"int", "write_u64", n>> : n \in U64s}
  \cup {<<"int", "write_number_str", 1>>}
  \cup {<<"float", "write_f32", f>> : f \in F32s}
  \cup {<<"float", "write_f64", f>> : f \in F64s}
  \cup {VStr(s) : s \in EscapedStrings \cup Fragments \cup {<<>>}}

\* Keys: a, b, y, z, "a!", "a ", a quote, a backslash, a line feed, U+E000,
\* U+10000, both after an 'a', the text 1 and the integer 1.
Keys ==
  {VStr(s) : s \in {<<97>>, <<98>>, <<97, 33>>, <<97, 32>>, <<34>>, <<92>>, <<10>>,
                   <<57344>>, <<65536>>, <<97, 57344>>, <<97, 65536>>, <<49>>}}
  \cup {VInt(1)}

InnerBA == VObj(<<<<VStr(<<98>>), VInt(1)>>, <<VStr(<<97>>), VInt(2)>>>>)
InnerBang == VObj(<<<<VStr(<<97>>), VInt(1)>>, <<VStr(<<97, 33>>), VInt(2)>>>>)
Arr312 == VArr(<<VInt(3), VInt(1), VInt(2)>>)

NestKeys == {VStr(<<121>>), VStr(<<122>>)}
NestVals ==
  {VInt(1), InnerBA, InnerBang, VObj(<<>>), Arr312, VArr(<<InnerBA, VInt(1)>>),
   VObj(<<<<VStr(<<122>>), InnerBA>>>>), <<"float", "write_f64", "NaN">>,
   VArr(<<VInt(1), <<"float", "write_f32", "-Inf">>>>),
   <<"int", "write_number_str", 1>>}

Items == {VInt(1), VInt(2), VInt(3), InnerBA, VArr(<<VInt(2), VInt(1)>>),
          <<"float", "write_f64", "+Inf">>}

FlatObjects == {VObj(m) : m \in Seqs(Keys \X {VInt(1), VInt(2)}, MaxMembers)}
NestedObjects == {VObj(m) : m \in Seqs(NestKeys \X NestVals, MaxMembers)}
Arrays == {VArr(a) : a \in Seqs(Items, MaxItems)}

\* The handler an event names.
RECURSIVE write_raw_fragment(_, _, _)
Dispatch(e, stk, w) ==
  CASE e[1] = "write_null" -> write_null(stk, w)
    [] e[1] = "write_bool" -> write_bool(stk, w, e[2])
    [] e[1] = "write_char_escape" -> write_char_escape(stk, w, e[2])
    [] e[1] = "write_number_str" -> write_number_str(stk, w, e[2])
    [] e[1] = "write_string_fragment" -> write_string_fragment(stk, w, e[2])
    [] e[1] = "write_raw_fragment" -> write_raw_fragment(stk, w, e[2])
    [] e[1] \in {"write_i8", "write_i16", "write_i32", "write_i64",
                 "write_u8", "write_u16", "write_u32", "write_u64"} ->
         write_int(stk, w, e[2])
    [] e[1] \in {"write_f32", "write_f64"} -> write_float(stk, w, e[2])
    [] e[1] = "begin_string" -> begin_string(stk, w)
    [] e[1] = "end_string" -> end_string(stk, w)
    [] e[1] = "begin_array" -> begin_array(stk, w)
    [] e[1] = "end_array" -> end_array(stk, w)
    [] e[1] = "begin_array_value" -> begin_array_value(stk, w, e[2])
    [] e[1] = "end_array_value" -> end_array_value(stk, w)
    [] e[1] = "begin_object" -> begin_object(stk, w)
    [] e[1] = "end_object" -> end_object(stk, w)
    [] e[1] = "begin_object_key" -> begin_object_key(stk, w, e[2])
    [] e[1] = "end_object_key" -> end_object_key(stk, w)
    [] e[1] = "begin_object_value" -> begin_object_value(stk, w)
    [] e[1] = "end_object_value" -> end_object_value(stk, w)

\* The Serializer on a list of events: it stops at the first error.
RECURSIVE RunEvents(_, _)
RunEvents(evs, st) ==
  IF evs = <<>> \/ st.res # "ok" THEN st
  ELSE RunEvents(Tail(evs), Dispatch(Head(evs), st.stack, st.writer))

\* to_vec of a value on its own.
Encode(v) == RunEvents(Events(v), Ret(<<>>, <<>>, "ok"))

\* A key as to_vec writes it on its own: the token the map stores.
KeyToken(k) == RunEvents(KeyEvents(k), Ret(<<>>, <<>>, "ok")).writer

(***************************************************************************)
(* serde_json::from_str::<Value>: the JSON text, given as its UTF-8 bytes, *)
(* parsed to a Value.  Each parser gives [ok, val, rest]: whether it       *)
(* succeeded, the value read and the bytes that follow it.                 *)
(***************************************************************************)
Fail == [ok |-> FALSE, val |-> None, rest |-> <<>>]
Parsed(v, rest) == [ok |-> TRUE, val |-> v, rest |-> rest]

Drop(s, n) == SubSeq(s, n + 1, Len(s))

RECURSIVE SkipWs(_)
SkipWs(s) == IF s # <<>> /\ Head(s) \in {32, 9, 10, 13} THEN SkipWs(Tail(s)) ELSE s

\* null, true, false: the ident must follow in full.
ParseIdent(s, ident, v) ==
  IF Len(s) >= Len(ident) /\ SubSeq(s, 1, Len(ident)) = ident
  THEN Parsed(v, Drop(s, Len(ident))) ELSE Fail

IsDigit(b) == b \in 48..57

\* How many of the first bytes of s are digits.
RECURSIVE DigitRun(_)
DigitRun(s) == IF s # <<>> /\ IsDigit(Head(s)) THEN 1 + DigitRun(Tail(s)) ELSE 0

RECURSIVE DigitsValue(_, _)
DigitsValue(s, acc) ==
  IF s = <<>> THEN acc ELSE DigitsValue(Tail(s), 10 * acc + (Head(s) - 48))

\* The f64 nearest to the decimal text, for the sampled floats.
FloatOfText(text) ==
  CASE text = <<48, 46, 49>> -> "0.1"
    [] text = <<49, 46, 48>> -> "1.0"
    [] text = <<45, 49, 46, 53>> -> "-1.5"
    [] text \in {<<49, 101, 43, 50, 49>>, <<49, 101, 50, 49>>, <<49, 69, 50, 49>>} -> "1e21"
    [] text = <<53, 101, 45, 51, 50, 52>> -> "5e-324"
    [] text \in {<<48, 46, 48>>, <<48, 101, 48>>} -> "+0"
    [] text \in {<<45, 48, 46, 48>>, <<45, 48>>} -> "-0"

\* The bytes after the optional fraction: '.' and a digit run.
AfterFrac(b) ==
  IF b # <<>> /\ Head(b) = 46 THEN Drop(b, 1 + DigitRun(Tail(b))) ELSE b

FracOk(b) == (b # <<>> /\ Head(b) = 46) => DigitRun(Tail(b)) > 0

\* The digits of an exponent: what follows 'e' or 'E' and an optional sign.
ExpDigits(c) == IF Len(c) >= 2 /\ c[2] \in {43, 45} THEN Drop(c, 2) ELSE Tail(c)

HasExp(c) == c # <<>> /\ Head(c) \in {101, 69}

AfterExp(c) == IF HasExp(c) THEN Drop(ExpDigits(c), DigitRun(ExpDigits(c))) ELSE c

ExpOk(c) == HasExp(c) => DigitRun(ExpDigits(c)) > 0

\* The number that s starts with, a being s without its sign, ni the length
\* of the digit run of a, b what follows the run and c what follows the
\* fraction.  Without fraction and exponent it is a u64, an i64 when
\* negative; -0 and everything else is an f64.
NumberEnd(s, a, ni, b, c) ==
  IF ni = 0 \/ (ni > 1 /\ Head(a) = 48) \/ ~FracOk(b) \/ ~ExpOk(c) THEN Fail
  ELSE IF b # c \/ HasExp(c) \/ (s # a /\ DigitsValue(SubSeq(a, 1, ni), 0) = 0)
    THEN Parsed(<<"float", "write_f64",
                  FloatOfText(SubSeq(s, 1, Len(s) - Len(AfterExp(c))))>>, AfterExp(c))
  ELSE IF s # a THEN Parsed(<<"int", "write_i64", 0 - DigitsValue(SubSeq(a, 1, ni), 0)>>, c)
  ELSE Parsed(<<"int", "write_u64", DigitsValue(SubSeq(a, 1, ni), 0)>>, c)

NumberFrac(s, a, ni, b) == NumberEnd(s, a, ni, b, AfterFrac(b))

NumberInt(s, a, ni) == NumberFrac(s, a, ni, Drop(a, ni))

NumberSigned(s, a) == NumberInt(s, a, DigitRun(a))

\* A number: '-'? int frac? exp?, int being 0 or a digit run with no leading 0.
ParseNumber(s) == NumberSigned(s, IF s # <<>> /\ Head(s) = 45 THEN Tail(s) ELSE s)

HexValue(b) ==
  IF b \in 48..57 THEN b - 48
  ELSE IF b \in 97..102 THEN b - 87
  ELSE IF b \in 65..70 THEN b - 55
  ELSE 0 - 1

\* The number four hex digits write, -1 when they are not four hex digits.
Hex4(s) ==
  IF Len(s) < 4 \/ \E i \in 1..4 : HexValue(s[i]) < 0 THEN 0 - 1
  ELSE 4096 * HexValue(s[1]) + 256 * HexValue(s[2]) + 16 * HexValue(s[3]) + HexValue(s[4])

\* The char the simple escape \b names, -1 when there is none.
Unescape(b) ==
  CASE b = 34 -> 34
    [] b = 92 -> 92
    [] b = 47 -> 47
    [] b = 98 -> 8
    [] b = 102 -> 12
    [] b = 110 -> 10
    [] b = 114 -> 13
    [] b = 116 -> 9
    [] OTHER -> 0 - 1

\* A string after its opening quote: chars up to the closing quote, the text
\* being valid UTF-8 as every &str is.  A control char must come escaped;
\* \u takes four hex digits, a high surrogate its low one in a second \u.
RECURSIVE ParseString(_, _), ParseEscape(_, _)
ParseString(s, acc) ==
  IF s = <<>> THEN Fail
  ELSE LET b == Head(s)
       IN  IF b = 34 THEN Parsed(VStr(acc), Tail(s))
           ELSE IF b = 92 THEN ParseEscape(Tail(s), acc)
           ELSE IF b < 32 THEN Fail
           ELSE IF b < 128 THEN ParseString(Tail(s), Append(acc, b))
           ELSE IF b < 224 THEN
             ParseString(Drop(s, 2), Append(acc, (b - 192) * 64 + (s[2] - 128)))
           ELSE IF b < 240 THEN
             ParseString(Drop(s, 3),
                         Append(acc, (b - 224) * 4096 + (s[2] - 128) * 64 + (s[3] - 128)))
           ELSE
             ParseString(Drop(s, 4),
                         Append(acc, (b - 240) * 262144 + (s[2] - 128) * 4096
                                     + (s[3] - 128) * 64 + (s[4] - 128)))

ParseEscape(s, acc) ==
  IF s = <<>> THEN Fail
  ELSE IF Head(s) = 117 THEN
    LET hi == Hex4(Tail(s))
        more == Drop(s, 5)
        lo == IF Len(more) >= 2 /\ more[1] = 92 /\ more[2] = 117
              THEN Hex4(Drop(more, 2)) ELSE 0 - 1
    IN  IF hi < 0 \/ hi \in 56320..57343 THEN Fail
        ELSE IF hi \in 55296..56319 THEN
          IF lo \in 56320..57343
          THEN ParseString(Drop(more, 6),
                           Append(acc, 65536 + (hi - 55296) * 1024 + (lo - 56320)))
          ELSE Fail
        ELSE ParseString(more, Append(acc, hi))
  ELSE IF Unescape(Head(s)) < 0 THEN Fail
  ELSE ParseString(Tail(s), Append(acc, Unescape(Head(s))))

\* serde_json::Map::insert: a BTreeMap over the key text, an equal key has
\* its value replaced.
RECURSIVE ValueInsert(_, _, _)
ValueInsert(pairs, key, val) ==
  IF pairs = <<>> THEN <<<<key, val>>>>
  ELSE IF Head(pairs)[1] = key THEN <<<<key, val>>>> \o Tail(pairs)
  ELSE IF ByteLess(AsBytes(key[2]), AsBytes(Head(pairs)[1][2])) THEN <<<<key, val>>>> \o pairs
  ELSE <<Head(pairs)>> \o ValueInsert(Tail(pairs), key, val)

RECURSIVE ParseValue(_), ParseElements(_, _), ParseMembers(_, _)
RECURSIVE MemberValue(_, _), MemberEnd(_, _, _)
ParseValue(s) ==
  LET t == SkipWs(s)
  IN  IF t = <<>> THEN Fail
      ELSE CASE Head(t) = 110 -> ParseIdent(t, <<110, 117, 108, 108>>, <<"null">>)
             [] Head(t) = 116 -> ParseIdent(t, <<116, 114, 117, 101>>, <<"bool", TRUE>>)
             [] Head(t) = 102 -> ParseIdent(t, <<102, 97, 108, 115, 101>>, <<"bool", FALSE>>)
             [] Head(t) = 45 \/ IsDigit(Head(t)) -> ParseNumber(t)
             [] Head(t) = 34 -> ParseString(Tail(t), <<>>)
             [] Head(t) = 91 ->
                  LET u == SkipWs(Tail(t))
                  IN  IF u # <<>> /\ Head(u) = 93 THEN Parsed(VArr(<<>>), Tail(u))
                      ELSE ParseElements(u, <<>>)
             [] Head(t) = 123 ->
                  LET u == SkipWs(Tail(t))
                  IN  IF u # <<>> /\ Head(u) = 125 THEN Parsed(VObj(<<>>), Tail(u))
                      ELSE ParseMembers(u, <<>>)
             [] OTHER -> Fail

\* The elements of an array, after '[' or ',': a value, then ',' or ']'.
ParseElements(s, items) ==
  LET r == ParseValue(s)
      t == SkipWs(r.rest)
  IN  IF ~r.ok \/ t = <<>> THEN Fail
      ELSE IF Head(t) = 44 THEN ParseElements(Tail(t), Append(items, r.val))
      ELSE IF Head(t) = 93 THEN Parsed(VArr(Append(items, r.val)), Tail(t))
      ELSE Fail

\* The members of an object, after '{' or ',': a string, ':', a value, then
\* ',' or '}'.
ParseMembers(s, pairs) ==
  IF SkipWs(s) = <<>> \/ Head(SkipWs(s)) # 34 THEN Fail
  ELSE MemberValue(ParseString(Tail(SkipWs(s)), <<>>), pairs)

\* The key is read: ':' and the value.
MemberValue(k, pairs) ==
  IF ~k.ok \/ SkipWs(k.rest) = <<>> \/ Head(SkipWs(k.rest)) # 58 THEN Fail
  ELSE MemberEnd(k.val, ParseValue(Tail(SkipWs(k.rest))), pairs)

\* The value is read: ',' and more members, or '}'.
MemberEnd(key, v, pairs) ==
  IF ~v.ok \/ SkipWs(v.rest) = <<>> THEN Fail
  ELSE IF Head(SkipWs(v.rest)) = 44
    THEN ParseMembers(Tail(SkipWs(v.rest)), ValueInsert(pairs, key, v.val))
  ELSE IF Head(SkipWs(v.rest)) = 125
    THEN Parsed(VObj(ValueInsert(pairs, key, v.val)), Tail(SkipWs(v.rest)))
  ELSE Fail

\* from_str: one value and nothing but whitespace after it.
from_str(s) ==
  LET r == ParseValue(s)
  IN  IF r.ok /\ SkipWs(r.rest) = <<>> THEN r ELSE Fail

\* Sampled fragments, as the UTF-8 bytes of the &str.
\* {"b":1, "a":[2, 1]} with spaces around and inside
RawObject ==
  <<32, 123, 34, 98, 34, 58, 49, 44, 32, 34, 97, 34, 58, 91, 50, 44, 32,
    49, 93, 125, 32>>

\* {"z":{"b":false,"a":null},"y":"x"}
RawNested ==
  <<123, 34, 122, 34, 58, 123, 34, 98, 34, 58, 102, 97, 108, 115, 101, 44,
    34, 97, 34, 58, 110, 117, 108, 108, 125, 44, 34, 121, 34, 58, 34, 120,
    34, 125>>

\* "\u0041\/\n"
RawEscapes ==
  <<34, 92, 117, 48, 48, 52, 49, 92, 47, 92, 110, 34>>

\* "\ud83d\ude00"
RawSurrogates ==
  <<34, 92, 117, 100, 56, 51, 100, 92, 117, 100, 101, 48, 48, 34>>

\* -0
RawNegativeZero ==
  <<45, 48>>

\* 1.0
RawOnePointZero ==
  <<49, 46, 48>>

\* {"a":1,"a":2}
RawSameKey ==
  <<123, 34, 97, 34, 58, 49, 44, 34, 97, 34, 58, 50, 125>>

\* nul
RawNul ==
  <<110, 117, 108>>

\* {"a":1,}
RawTrailingComma ==
  <<123, 34, 97, 34, 58, 49, 44, 125>>

\* [1,2
RawOpenArray ==
  <<91, 49, 44, 50>>

\* true x
RawTrailingText ==
  <<116, 114, 117, 101, 32, 120>>

\* the empty text
RawEmpty ==
  <<>>

\* 01
RawLeadingZero ==
  <<48, 49>>

ValidFragments ==
  {RawObject, RawNested, RawEscapes, RawSurrogates, RawNegativeZero, RawOnePointZero, RawSameKey}

InvalidFragments ==
  {RawNul, RawTrailingComma, RawOpenArray,
   RawTrailingText, RawEmpty, RawLeadingZero}

RawFragments == ValidFragments \cup InvalidFragments

\* write_raw_fragment copying the fragment as it is, as CompactFormatter does.
write_raw_fragment_verbatim(stk, w, fragment) == ScopeWrite(stk, w, fragment)

\* The fragment is parsed and the Value serialized by a Serializer of its own,
\* with a JcsFormatter::new(), which writes to the scope of this formatter.
write_raw_fragment(stk, w, fragment) ==
  LET parsed == from_str(fragment)
      nested == RunEvents(Events(parsed.val), Ret(<<>>, <<>>, "ok"))
      r == ScopeWrite(stk, w, nested.writer)
  IN  IF ~parsed.ok THEN Ret(stk, w, "err")
      ELSE Ret(r.stack, r.writer, nested.res)

DistinctKeys(members) ==
  \A i, j \in 1..Len(members) :
    i # j => KeyToken(members[i][1]) # KeyToken(members[j][1])

\* The same members in every order.
Reorderings(members) ==
  {[i \in 1..Len(members) |-> members[p[i]]] :
     p \in {q \in [1..Len(members) -> 1..Len(members)] :
              \A i, j \in 1..Len(members) : i # j => q[i] # q[j]}}

PermKeys == {VStr(<<97>>), VStr(<<98>>), VStr(<<97, 33>>), VStr(<<65536>>), VStr(<<57344>>)}
PermObjects ==
  {VObj(m) : m \in {x \in Seqs(PermKeys \X {VInt(1), InnerBA}, MaxMembers) :
                     Len(x) >= 2 /\ DistinctKeys(x)}}

\* A RawValue at the top, as a member value and as an array element.
RawValues ==
  {<<"raw", f>> : f \in RawFragments}
  \cup {VObj(<<<<VStr(<<121>>), <<"raw", f>>>>>>) : f \in RawFragments}
  \cup {VArr(<<VInt(1), <<"raw", f>>>>) : f \in RawFragments}

\* One to_vec call per value of a job.
Jobs ==
  {<<v>> : v \in Scalars \cup FlatObjects \cup NestedObjects \cup Arrays \cup RawValues}
  \cup UNION {{<<v, VObj(m)>> : m \in Reorderings(v[2])} : v \in PermObjects}

(***************************************************************************)
(* Calling a handler.  In a to_vec call the Serializer issues the next     *)
(* event of the value and gives up at the first error; called directly,    *)
(* any handler may come next, with an argument of its input set.           *)
(***************************************************************************)
Inputs(name, rich, tiny, isWrite) ==
  CASE mode = "driven" ->
         IF todo # <<>> /\ Head(todo)[1] = name THEN {Head(todo)[2]} ELSE {}
    [] mode = "events" ->
         IF steps < MaxEvents /\ result # "panic" THEN tiny ELSE {}
    [] mode = "scalar" ->
         IF steps < MaxEvents /\ result = "ok" /\ (isWrite => writes < MaxWrites)
         THEN rich ELSE {}

Call(name, arg, r, isWrite) ==
  /\ stack' = r.stack
  /\ writer' = r.writer
  /\ result' = r.res
  /\ last' = <<name, arg>>
  /\ prev' = [stack |-> stack, writer |-> writer]
  /\ todo' = IF todo = <<>> THEN <<>> ELSE IF r.res = "ok" THEN Tail(todo) ELSE <<>>
  /\ steps' = IF mode = "driven" THEN steps ELSE steps + 1
  /\ writes' = IF mode # "driven" /\ isWrite THEN writes + 1 ELSE writes
  /\ begun' = IF name = "begin_object" /\ r.res = "ok" THEN begun + 1 ELSE begun
  /\ ended' = IF name = "end_object" /\ r.res = "ok" THEN ended + 1 ELSE ended
  /\ UNCHANGED <<queue, outs, value, mode>>

WriteNull ==
  \E a \in Inputs("write_null", {0}, {0}, TRUE) :
    Call("write_null", a, write_null(stack, writer), TRUE)

WriteBool ==
  \E b \in Inputs("write_bool", BOOLEAN, BOOLEAN, TRUE) :
    Call("write_bool", b, write_bool(stack, writer, b), TRUE)

WriteCharEscape ==
  \E e \in Inputs("write_char_escape", Escapes, {}, TRUE) :
    Call("write_char_escape", e, write_char_escape(stack, writer, e), TRUE)

WriteNumberStr ==
  \E n \in Inputs("write_number_str", {1}, {}, TRUE) :
    Call("write_number_str", n, write_number_str(stack, writer, n), TRUE)

WriteStringFragment ==
  \E f \in Inputs("write_string_fragment", Fragments, {}, TRUE) :
    Call("write_string_fragment", f, write_string_fragment(stack, writer, f), TRUE)

WriteRawFragment ==
  \E f \in Inputs("write_raw_fragment", RawFragments, {}, TRUE) :
    Call("write_raw_fragment", f, write_raw_fragment(stack, writer, f), TRUE)

WriteI8 ==
  \E n \in Inputs("write_i8", I8s, {}, TRUE) :
    Call("write_i8", n, write_int(stack, writer, n), TRUE)

WriteI16 ==
  \E n \in Inputs("write_i16", I16s, {}, TRUE) :
    Call("write_i16", n, write_int(stack, writer, n), TRUE)

WriteI32 ==
  \E n \in Inputs("write_i32", I32s, {}, TRUE) :
    Call("write_i32", n, write_int(stack, writer, n), TRUE)

WriteI64 ==
  \E n \in Inputs("write_i64", I64s, {}, TRUE) :
    Call("write_i64", n, write_int(stack, writer, n), TRUE)

WriteU8 ==
  \E n \in Inputs("write_u8", U8s, {}, TRUE) :
    Call("write_u8", n, write_int(stack, writer, n), TRUE)

WriteU16 ==
  \E n \in Inputs("write_u16", U16s, {}, TRUE) :
    Call("write_u16", n, write_int(stack, writer, n), TRUE)

WriteU32 ==
  \E n \in Inputs("write_u32", U32s, {}, TRUE) :
    Call("write_u32", n, write_int(stack, writer, n), TRUE)

WriteU64 ==
  \E n \in Inputs("write_u64", U64s, {}, TRUE) :
    Call("write_u64", n, write_int(stack, writer, n), TRUE)

WriteF32 ==
  \E f \in Inputs("write_f32", F32s, {}, TRUE) :
    Call("write_f32", f, write_float(stack, writer, f), TRUE)

WriteF64 ==
  \E f \in Inputs("write_f64", F64s, {}, TRUE) :
    Call("write_f64", f, write_float(stack, writer, f), TRUE)

BeginString ==
  \E a \in Inputs("begin_string", {}, {0}, FALSE) :
    Call("begin_string", a, begin_string(stack, writer), FALSE)

EndString ==
  \E a \in Inputs("end_string", {}, {0}, FALSE) :
    Call("end_string", a, end_string(stack, writer), FALSE)

BeginArray ==
  \E a \in Inputs("begin_array", {}, {0}, FALSE) :
    Call("begin_array", a, begin_array(stack, writer), FALSE)

EndArray ==
  \E a \in Inputs("end_array", {}, {0}, FALSE) :
    Call("end_array", a, end_array(stack, writer), FALSE)

BeginArrayValue ==
  \E first \in Inputs("begin_array_value", {}, BOOLEAN, FALSE) :
    Call("begin_array_value", first, begin_array_value(stack, writer, first), FALSE)

EndArrayValue ==
  \E a \in Inputs("end_array_value", {}, {0}, FALSE) :
    Call("end_array_value", a, end_array_value(stack, writer), FALSE)

BeginObject ==
  \E a \in Inputs("begin_object", {0}, {0}, FALSE) :
    Call("begin_object", a, begin_object(stack, writer), FALSE)

EndObject ==
  \E a \in Inputs("end_object", {}, {0}, FALSE) :
    Call("end_object", a, end_object(stack, writer), FALSE)

BeginObjectKey ==
  \E first \in Inputs("begin_object_key", {TRUE}, BOOLEAN, FALSE) :
    Call("begin_object_key", first, begin_object_key(stack, writer, first), FALSE)

EndObjectKey ==
  \E a \in Inputs("end_object_key", {0}, {0}, FALSE) :
    Call("end_object_key", a, end_object_key(stack, writer), FALSE)

BeginObjectValue ==
  \E a \in Inputs("begin_object_value", {}, {0}, FALSE) :
    Call("begin_object_value", a, begin_object_value(stack, writer), FALSE)

EndObjectValue ==
  \E a \in Inputs("end_object_value", {}, {0}, FALSE) :
    Call("end_object_value", a, end_object_value(stack, writer), FALSE)

\* to_vec calls to_writer: a new Vec, JcsFormatter::new(), and the Serializer
\* starts on the value.
ToWriter ==
  /\ mode = "driven" /\ value = None /\ queue # <<>>
  /\ value' = Head(queue)
  /\ queue' = Tail(queue)
  /\ todo' = Events(Head(queue))
  /\ stack' = <<>>
  /\ writer' = <<>>
  /\ result' = "ok"
  /\ last' = <<"to_writer", 0>>
  /\ prev' = [stack |-> <<>>, writer |-> <<>>]
  /\ begun' = 0
  /\ ended' = 0
  /\ UNCHANGED <<outs, mode, steps, writes>>

\* to_vec returns Ok(data) or the error; a panic never returns.
ToVec ==
  /\ mode = "driven" /\ value # None /\ todo = <<>> /\ result # "panic"
  /\ outs' = Append(outs, [value |-> value, res |-> result,
                           data |-> IF result = "ok" THEN writer ELSE <<>>])
  /\ value' = None
  /\ last' = <<"to_vec", 0>>
  /\ UNCHANGED <<stack, writer, result, prev, todo, queue, mode, steps, writes,
                 begun, ended>>

Start(m) ==
  /\ mode = m
  /\ stack = <<>>
  /\ writer = <<>>
  /\ result = "ok"
  /\ last = <<"new", 0>>
  /\ prev = [stack |-> <<>>, writer |-> <<>>]
  /\ todo = <<>>
  /\ outs = <<>>
  /\ value = None
  /\ steps = 0
  /\ writes = 0
  /\ begun = 0
  /\ ended = 0

Init == Start("driven") /\ queue \in Jobs

InitEvents == Start("events") /\ queue = <<>>

InitScalar == Start("scalar") /\ queue = <<>>

Next ==
  \/ ToWriter \/ ToVec
  \/ WriteNull \/ WriteBool \/ WriteCharEscape \/ WriteNumberStr \/ WriteStringFragment
  \/ WriteRawFragment
  \/ WriteI8 \/ WriteI16 \/ WriteI32 \/ WriteI64
  \/ WriteU8 \/ WriteU16 \/ WriteU32 \/ WriteU64
  \/ WriteF32 \/ WriteF64
  \/ BeginString \/ EndString
  \/ BeginArray \/ EndArray \/ BeginArrayValue \/ EndArrayValue
  \/ BeginObject \/ EndObject
  \/ BeginObjectKey \/ EndObjectKey \/ BeginObjectValue \/ EndObjectValue

NextEvents ==
  \/ WriteNull \/ WriteBool
  \/ BeginString \/ EndString
  \/ BeginArray \/ EndArray \/ BeginArrayValue \/ EndArrayValue
  \/ BeginObject \/ EndObject
  \/ BeginObjectKey \/ EndObjectKey \/ BeginObjectValue \/ EndObjectValue

NextScalar ==
  \/ WriteNull \/ WriteBool \/ WriteCharEscape \/ WriteNumberStr \/ WriteStringFragment
  \/ WriteRawFragment
  \/ WriteI8 \/ WriteI16 \/ WriteI32 \/ WriteI64
  \/ WriteU8 \/ WriteU16 \/ WriteU32 \/ WriteU64
  \/ WriteF32 \/ WriteF64
  \/ BeginObject \/ BeginObjectKey \/ EndObjectKey

\* Values encoded by to_vec.
Spec == Init /\ [][Next]_vars

\* Handlers called directly, in any order.
SpecEvents == InitEvents /\ [][NextEvents]_vars

\* One scalar write into each scope.
SpecScalar == InitScalar /\ [][NextScalar]_vars

(***************************************************************************)
(* What the claims speak of.                                               *)
(***************************************************************************)
\* The Serializer has issued every event of the value and none failed.
Finished == mode = "driven" /\ value # None /\ todo = <<>> /\ result = "ok"

\* The UTF-16 code units of a text.
Utf16(cp) ==
  IF cp < 65536 THEN <<cp>>
  ELSE <<55296 + ((cp - 65536) \div 1024), 56320 + ((cp - 65536) % 1024)>>

RECURSIVE Units(_)
Units(s) == IF s = <<>> THEN <<>> ELSE Utf16(Head(s)) \o Units(Tail(s))

RECURSIVE UnitLess(_, _)
UnitLess(a, b) ==
  IF b = <<>> THEN FALSE
  ELSE IF a = <<>> THEN TRUE
  ELSE IF Head(a) < Head(b) THEN TRUE
  ELSE IF Head(a) > Head(b) THEN FALSE
  ELSE UnitLess(Tail(a), Tail(b))

\* The members of an object ordered by the UTF-16 code units of the key text.
RECURSIVE InsertByText(_, _)
InsertByText(sorted, m) ==
  IF sorted = <<>> THEN <<m>>
  ELSE IF UnitLess(Units(m[1][2]), Units(Head(sorted)[1][2])) THEN <<m>> \o sorted
  ELSE <<Head(sorted)>> \o InsertByText(Tail(sorted), m)

RECURSIVE SortByText(_)
SortByText(members) ==
  IF members = <<>> THEN <<>>
  ELSE InsertByText(SortByText(Tail(members)), Head(members))

\* key ':' value, the value as to_vec writes it on its own.
MemberText(m) == KeyToken(m[1]) \o <<58>> \o Encode(m[2]).writer

RECURSIVE Joined(_)
Joined(texts) ==
  IF texts = <<>> THEN <<>>
  ELSE IF Len(texts) = 1 THEN Head(texts)
  ELSE Head(texts) \o <<44>> \o Joined(Tail(texts))

ObjectText(members) ==
  <<123>> \o Joined([i \in 1..Len(members) |-> MemberText(members[i])]) \o <<125>>

StringKeys(members) == \A i \in 1..Len(members) : members[i][1][1] = "str"

AsciiKeys(members) ==
  \A i \in 1..Len(members) : \A p \in 1..Len(members[i][1][2]) : members[i][1][2][p] < 128

SupplementaryBeforeBmp(k1, k2) ==
  \E p \in 1..Len(k1) :
    /\ p <= Len(k2)
    /\ SubSeq(k1, 1, p - 1) = SubSeq(k2, 1, p - 1)
    /\ k1[p] >= 65536
    /\ k2[p] \in 57344..65535

SecondOrder ==
  /\ Finished
  /\ Len(outs) = 1 /\ outs[1].res = "ok"
  /\ value[1] = "obj" /\ outs[1].value[1] = "obj"
  /\ DistinctKeys(value[2])
  /\ value[2] \in Reorderings(outs[1].value[2])

C3_OrderIndependent == SecondOrder => writer = outs[1].data

C3_Witness == SecondOrder /\ Len(value[2]) >= 2 /\ value[2] # outs[1].value[2]

(***************************************************************************)
(* C4: an object written as a member value of another object is flushed,   *)
(* at its end_object, into the next_val of the frame below and not into    *)
(* the writer; every object of a value is written as to_vec writes it on   *)
(* its own, whatever its siblings and parents; z={b:1,a:2}, y=1 gives      *)
(* {"y":1,"z":{"a":2,"b":1}}.                                              *)
(***************************************************************************)
NestedFlush == last[1] = "end_object" /\ result = "ok" /\ Len(prev.stack) >= 2

\* The pairs of a frame's map as they are written out, and the brace.
FrameText(obj) ==
  Joined([i \in 1..Len(obj) |-> obj[i][1] \o <<58>> \o obj[i][2]]) \o <<125>>

C4_Example == VObj(<<<<VStr(<<122>>), InnerBA>>, <<VStr(<<121>>), VInt(1)>>>>)

C4_ExampleText ==
  <<123, 34, 121, 34, 58, 49, 44, 34, 122, 34, 58,
    123, 34, 97, 34, 58, 50, 44, 34, 98, 34, 58, 49, 125, 125>>

C4_NestedIndependence ==
  /\ NestedFlush =>
       LET n == Len(prev.stack)
           top == prev.stack[n]
           parent == prev.stack[n - 1]
       IN  /\ writer = prev.writer
           /\ stack = Append(SubSeq(prev.stack, 1, n - 2),
                             [parent EXCEPT !.next_val = @ \o FrameText(top.object)])
  /\ (Finished /\ value[1] = "obj" /\ DistinctKeys(value[2]))
       => \E m \in Reorderings(value[2]) : writer = ObjectText(m)
  /\ (Finished /\ value = C4_Example) => writer = C4_ExampleText

C4_Witness ==
  /\ NestedFlush
  /\ value = C4_Example
  /\ Len(prev.stack[2].object) = 2
  /\ prev.stack[1].complete

(***************************************************************************)
(* C5: the elements of an array are never reordered: they are written in   *)
(* the order of their begin_array_value events, for an array at the top,   *)
(* for an array that is a member value of an object, and for an array      *)
(* holding objects whose own members are reordered.                        *)
(***************************************************************************)
ArrayText(items) ==
  <<91>> \o Joined([i \in 1..Len(items) |-> Encode(items[i]).writer]) \o <<93>>

C5_ArrayOrder ==
  /\ (Finished /\ value[1] = "arr") => writer = ArrayText(value[2])
  /\ (Finished /\ value[1] = "obj" /\ Len(value[2]) = 1 /\ value[2][1][2][1] = "arr")
       => writer = <<123>> \o KeyToken(value[2][1][1]) \o <<58>>
                   \o ArrayText(value[2][1][2][2]) \o <<125>>

C5_Witness ==
  /\ Finished
  /\ value = VObj(<<<<VStr(<<121>>), VArr(<<InnerBA, VInt(1)>>)>>>>)
  /\ last[1] = "end_object"

(***************************************************************************)
(* C6: write_f32 and write_f64 of NaN or an infinity return an error and   *)
(* add no byte to the writer nor to any frame, at the top or inside arrays *)
(* and objects, and to_vec of a value holding one returns the error.       *)
(***************************************************************************)
NonFinite == {"NaN", "+Inf", "-Inf"}

RECURSIVE HoldsNonFinite(_)
HoldsNonFinite(v) ==
  CASE v[1] = "float" -> v[3] \in NonFinite
    [] v[1] = "arr" -> \E i \in 1..Len(v[2]) : HoldsNonFinite(v[2][i])
    [] v[1] = "obj" -> \E i \in 1..Len(v[2]) : HoldsNonFinite(v[2][i][2])
    [] OTHER -> FALSE

NonFiniteWrite == last[1] \in {"write_f32", "write_f64"} /\ last[2] \in NonFinite

UnbalancedEnd == last[1] \in {"end_object", "end_object_value"} /\ prev.stack = <<>>

C7_UnbalancedScope ==
  UnbalancedEnd => result = "err" /\ writer = prev.writer /\ stack = <<>>

C7_Witness == UnbalancedEnd /\ last[1] = "end_object" /\ prev.writer # <<>>

(***************************************************************************)
(* C8: end_object_value moves next_key and next_val of the top frame into  *)
(* its map, in place of a value already stored under the same key, and     *)
(* leaves both empty; an object written with one key several times comes   *)
(* out with one member for it, holding the value written last.             *)
(***************************************************************************)
MemberStored == last[1] = "end_object_value" /\ result = "ok"

SameToken(members) ==
  \A i \in 1..Len(members) : KeyToken(members[i][1]) = KeyToken(members[1][1])

C8_LastWriteWins ==
  /\ MemberStored =>
       LET n == Len(prev.stack)
           old == prev.stack[n]
           new == stack[n]
           had == \E j \in 1..Len(old.object) : old.object[j][1] = old.next_key
       IN  /\ writer = prev.writer
           /\ Len(stack) = n
           /\ SubSeq(stack, 1, n - 1) = SubSeq(prev.stack, 1, n - 1)
           /\ new.next_key = <<>> /\ new.next_val = <<>>
           /\ new.complete = old.complete
           /\ \E i \in 1..Len(new.object) : new.object[i] = <<old.next_key, old.next_val>>
           /\ \A i, j \in 1..Len(new.object) :
                i # j => new.object[i][1] # new.object[j][1]
           /\ \A j \in 1..Len(old.object) :
                old.object[j][1] # old.next_key
                => \E i \in 1..Len(new.object) : new.object[i] = old.object[j]
           /\ Len(new.object) = Len(old.object) + (IF had THEN 0 ELSE 1)
  /\ (Finished /\ value[1] = "obj" /\ Len(value[2]) >= 2 /\ SameToken(value[2]))
       => writer = ObjectText(<<value[2][Len(value[2])]>>)

C8_Witness ==
  /\ Finished
  /\ value[1] = "obj" /\ Len(value[2]) = 2 /\ SameToken(value[2])
  /\ value[2][1][2] # value[2][2][2]

(***************************************************************************)
(* The scope has gained these bytes since the last call and nothing else   *)
(* has changed: the writer with no frame open, otherwise next_key of the   *)
(* top frame while its key is being written and next_val after that.       *)
(***************************************************************************)
ScopeGained(bytes) ==
  IF prev.stack = <<>> THEN stack = <<>> /\ writer = prev.writer \o bytes
  ELSE LET n == Len(prev.stack)
           top == prev.stack[n]
       IN  /\ writer = prev.writer
           /\ stack = Append(SubSeq(prev.stack, 1, n - 1),
                             IF top.complete
                             THEN [top EXCEPT !.next_val = @ \o bytes]
                             ELSE [top EXCEPT !.next_key = @ \o bytes])

(***************************************************************************)
(* C9: writing an integer of any width, 8 to 128 bits, signed or not,      *)
(* succeeds and appends its base-10 digits, '-' first when negative, to    *)
(* the scope.  serde_json hands a 128-bit integer to write_number_str.     *)
(***************************************************************************)
IntegerWrites ==
  {"write_i8", "write_i16", "write_i32", "write_i64",
   "write_u8", "write_u16", "write_u32", "write_u64", "write_number_str"}

C9_IntegersSucceed ==
  last[1] \in IntegerWrites => result = "ok" /\ ScopeGained(Itoa(last[2]))

(***************************************************************************)
(* C10: write_char_escape writes \" \\ \/ \b \f \n \r \t for the named     *)
(* escapes and, for any other control code c below 0x20, the six bytes     *)
(* \u00 and the two lowercase hex digits of c, high nibble first;          *)
(* write_string_fragment appends the bytes of its text unchanged.          *)
(***************************************************************************)
HexDigit(d) == IF d < 10 THEN 48 + d ELSE 87 + d

EscapeText(e) ==
  CASE e[1] = "Quote" -> <<92, 34>>
    [] e[1] = "ReverseSolidus" -> <<92, 92>>
    [] e[1] = "Solidus" -> <<92, 47>>
    [] e[1] = "Backspace" -> <<92, 98>>
    [] e[1] = "FormFeed" -> <<92, 102>>
    [] e[1] = "LineFeed" -> <<92, 110>>
    [] e[1] = "CarriageReturn" -> <<92, 114>>
    [] e[1] = "Tab" -> <<92, 116>>
    [] e[1] = "AsciiControl" ->
         <<92, 117, 48, 48, HexDigit(e[2] \div 16), HexDigit(e[2] % 16)>>

\* The UTF-8 bytes of the sampled fragments: a, a e-acute euro, U+E000 U+10000.
FragmentBytes(f) ==
  CASE f = <<97>> -> <<97>>
    [] f = <<97, 233, 8364>> -> <<97, 195, 169, 226, 130, 172>>
    [] f = <<57344, 65536>> -> <<238, 128, 128, 240, 144, 128, 128>>

C10_EscapeMapping ==
  /\ last[1] = "write_char_escape" => result = "ok" /\ ScopeGained(EscapeText(last[2]))
  /\ (last[1] = "write_string_fragment" /\ last[2] \in Fragments)
       => result = "ok" /\ ScopeGained(FragmentBytes(last[2]))

C10_Witness ==
  /\ last = <<"write_char_escape", <<"AsciiControl", 31>>>>
  /\ Len(prev.stack) = 1 /\ prev.stack[1].complete
  /\ stack[1].next_val = <<92, 117, 48, 48, 49, 102>>

(***************************************************************************)
(* C12: write_f32 and write_f64 of a zero, +0.0 or -0.0, succeed and       *)
(* append the one byte '0' to the scope, so both zeros are written alike.  *)
(***************************************************************************)
ZeroWrite == last[1] \in {"write_f32", "write_f64"} /\ last[2] \in {"+0", "-0"}

C12_ZeroCollapse == ZeroWrite => result = "ok" /\ ScopeGained(<<48>>)

C12_Witness ==
  /\ last = <<"write_f64", "-0">>
  /\ Len(prev.stack) = 1 /\ ~prev.stack[1].complete
  /\ stack[1].next_key = <<48>>

(***************************************************************************)
(* C13: the bytes of a write go to the writer if and only if no frame is   *)
(* open; with a frame open they go to the top frame only, to its next_key  *)
(* while the key is being written (complete = FALSE) and to its next_val   *)
(* otherwise, and the frames below the top one, the writer, and the map    *)
(* and flag of the top frame stay as they were.  A write that fails        *)
(* changes nothing.                                                        *)
(***************************************************************************)
WriteEvents ==
  {"write_null", "write_bool", "write_char_escape", "write_string_fragment",
   "write_i8", "write_i16", "write_i32", "write_i64",
   "write_u8", "write_u16", "write_u32", "write_u64", "write_f32", "write_f64",
   "begin_string", "end_string", "begin_array", "end_array",
   "begin_array_value", "end_array_value"}

\* The writes that may add no byte: the first value of an array has no comma.
SilentEvents == {<<"begin_array_value", TRUE>>, <<"end_array_value", 0>>}

\* What the buffer the scope named before the call holds more than it held.
Gained ==
  IF prev.stack = <<>> THEN SubSeq(writer, Len(prev.writer) + 1, Len(writer))
  ELSE LET n == Len(prev.stack)
       IN  IF prev.stack[n].complete
           THEN SubSeq(stack[n].next_val, Len(prev.stack[n].next_val) + 1,
                       Len(stack[n].next_val))
           ELSE SubSeq(stack[n].next_key, Len(prev.stack[n].next_key) + 1,
                       Len(stack[n].next_key))

C13_ScopeRouting ==
  last[1] \in WriteEvents =>
    IF result = "ok"
    THEN /\ Len(stack) = Len(prev.stack)
         /\ ScopeGained(Gained)
         /\ last \notin SilentEvents => Gained # <<>>
    ELSE stack = prev.stack /\ writer = prev.writer

C13_Witness ==
  /\ last[1] = "write_string_fragment" /\ result = "ok"
  /\ Len(prev.stack) = 2
  /\ ~prev.stack[2].complete /\ prev.stack[1].complete
  /\ prev.stack[1].next_val # <<>> /\ prev.stack[1].object # <<>>
  /\ stack[2].next_key = prev.stack[2].next_key \o AsBytes(last[2])

(***************************************************************************)
(* C14: the stack holds as many frames as begin_object has been called     *)
(* less the end_object calls that succeeded: begin_object pushes one       *)
(* frame, a successful end_object pops one, no other handler and no        *)
(* failed call changes the depth, and when the Serializer is through with  *)
(* a value the stack is empty.                                             *)
(***************************************************************************)
C14_DepthCounts ==
  /\ Len(stack) = begun - ended
  /\ last[1] # "to_vec" =>
       Len(stack) - Len(prev.stack) =
         (CASE last[1] = "begin_object" /\ result = "ok" -> 1
            [] last[1] = "end_object" /\ result = "ok" -> 0 - 1
            [] OTHER -> 0)
  /\ Finished => stack = <<>>

C14_Witness ==
  /\ last[1] = "end_object" /\ result = "ok"
  /\ begun = 3 /\ ended = 2 /\ Len(stack) = 1

(***************************************************************************)
(* C15: when the Serializer calls end_object, next_key and next_val of the *)
(* frame it pops are both empty, so the flush drops no byte of a member;   *)
(* so it is for an object with no member and for one whose last member     *)
(* value is an object or an array.                                         *)
(***************************************************************************)
ClosingObject == mode = "driven" /\ todo # <<>> /\ Head(todo)[1] = "end_object"

C15_NothingPending ==
  /\ ClosingObject =>
       /\ stack # <<>>
       /\ stack[Len(stack)].next_key = <<>>
       /\ stack[Len(stack)].next_val = <<>>
  /\ (mode = "driven" /\ last[1] = "end_object") =>
       /\ result = "ok"
       /\ prev.stack[Len(prev.stack)].next_key = <<>>
       /\ prev.stack[Len(prev.stack)].next_val = <<>>

C15_Witness ==
  /\ ClosingObject
  /\ last[1] = "end_object_value"
  /\ Len(stack) = 1 /\ Len(stack[1].object) = 2
  /\ value[2][Len(value[2])][2][1] \in {"obj", "arr"}

(***************************************************************************)
(* C16: begin_object_key, whenever it is accepted, leaves the top frame    *)
(* with its key not complete and with an empty next_key, also when bytes   *)
(* of a key written before were never taken by end_object_value, so that   *)
(* no bytes left over get into the next key.                               *)
(***************************************************************************)
C16_KeyCleared ==
  (last[1] = "begin_object_key" /\ result = "ok") =>
    /\ stack # <<>>
    /\ ~stack[Len(stack)].complete
    /\ stack[Len(stack)].next_key = <<>>

(***************************************************************************)
(* C17: begin_object writes '{' into the enclosing scope (the writer, or   *)
(* the buffer in use of the frame on top before the call) and then pushes  *)
(* a new, empty frame; while that frame is open the enclosing scope gets   *)
(* nothing after the '{'; the matching end_object pops the frame and       *)
(* writes its members and '}' into that same scope, right after the '{'.   *)
(***************************************************************************)
\* The frames stk are those before the call but for these bytes, gained by
\* the scope of before the call.
FramesGained(stk, bytes) ==
  IF prev.stack = <<>> THEN stk = <<>> /\ writer = prev.writer \o bytes
  ELSE LET n == Len(prev.stack)
           top == prev.stack[n]
       IN  /\ writer = prev.writer
           /\ stk = Append(SubSeq(prev.stack, 1, n - 1),
                           IF top.complete
                           THEN [top EXCEPT !.next_val = @ \o bytes]
                           ELSE [top EXCEPT !.next_key = @ \o bytes])

\* The buffer a write would go to with only the first i frames open.
ScopeBuffer(i) ==
  IF i = 0 THEN writer
  ELSE IF stack[i].complete THEN stack[i].next_val ELSE stack[i].next_key

EndsWithBrace(buf) == buf # <<>> /\ buf[Len(buf)] = 123

C17_BraceOrder ==
  /\ last[1] = "begin_object" =>
       /\ result = "ok"
       /\ Len(stack) = Len(prev.stack) + 1
       /\ stack[Len(stack)] = EntryNew
       /\ FramesGained(SubSeq(stack, 1, Len(stack) - 1), <<123>>)
  /\ \A i \in 1..Len(stack) : EndsWithBrace(ScopeBuffer(i - 1))
  /\ (last[1] = "end_object" /\ result = "ok") =>
       LET n == Len(prev.stack)
           popped == prev.stack[n]
           rest == SubSeq(prev.stack, 1, n - 1)
           before == IF n = 1 THEN prev.writer
                     ELSE IF rest[n - 1].complete THEN rest[n - 1].next_val
                     ELSE rest[n - 1].next_key
           bytes == Members(popped.object, TRUE) \o <<125>>
       IN  /\ EndsWithBrace(before)
           /\ ScopeBuffer(n - 1) = before \o bytes
           /\ IF n = 1 THEN stack = <<>> /\ writer = prev.writer \o bytes
              ELSE /\ writer = prev.writer
                   /\ stack = Append(SubSeq(rest, 1, n - 2),
                                     IF rest[n - 1].complete
                                     THEN [rest[n - 1] EXCEPT !.next_val = @ \o bytes]
                                     ELSE [rest[n - 1] EXCEPT !.next_key = @ \o bytes])

C17_Witness ==
  /\ last[1] = "end_object" /\ result = "ok"
  /\ Len(prev.stack) = 1 /\ Len(prev.stack[1].object) = 2
  /\ prev.writer = <<91, 123>>
  /\ writer = <<91, 123, 34, 97, 34, 58, 50, 44, 34, 98, 34, 58, 49, 125>>

(***************************************************************************)
(* C18: end_object of a frame whose map holds n >= 0 pairs writes, for     *)
(* each pair in the map's order, the key token as stored (one pair of      *)
(* quotes), ':' and the stored value bytes as they are, with one ',' ahead *)
(* of each pair but the first (n - 1 commas, none leading or trailing),    *)
(* and then one '}'; the empty object comes out as exactly {}.             *)
(***************************************************************************)
Flushed == last[1] = "end_object" /\ result = "ok"

\* What the scope left after the pop holds more than it held before the call.
FlushedBytes ==
  LET n == Len(prev.stack)
      below == prev.stack[n - 1]
      before == IF n = 1 THEN prev.writer
                ELSE IF below.complete THEN below.next_val ELSE below.next_key
      after == IF n = 1 THEN writer
               ELSE IF below.complete THEN stack[n - 1].next_val
               ELSE stack[n - 1].next_key
  IN  SubSeq(after, Len(before) + 1, Len(after))

RECURSIVE PairsLen(_)
PairsLen(obj) ==
  IF obj = <<>> THEN 0
  ELSE Len(Head(obj)[1]) + 1 + Len(Head(obj)[2]) + PairsLen(Tail(obj))

Quoted(token) == Len(token) >= 2 /\ token[1] = 34 /\ token[Len(token)] = 34

C18_FlushFormat ==
  /\ Flushed =>
       LET obj == prev.stack[Len(prev.stack)].object
           n == Len(obj)
       IN  /\ Len(stack) = Len(prev.stack) - 1
           /\ FlushedBytes = FrameText(obj)
           /\ Len(FlushedBytes) = PairsLen(obj) + (IF n = 0 THEN 0 ELSE n - 1) + 1
           /\ n = 0 => FlushedBytes = <<125>>
           /\ \A i \in 1..n : Quoted(obj[i][1])
  /\ (Finished /\ value = VObj(<<>>)) => writer = <<123, 125>>

C18_Witness ==
  /\ Flushed /\ Finished
  /\ value = VObj(<<<<VStr(<<122>>), VObj(<<>>)>>, <<VStr(<<121>>), Arr312>>>>)
  /\ writer = <<123, 34, 121, 34, 58, 91, 51, 44, 49, 44, 50, 93, 44,
                34, 122, 34, 58, 123, 125, 125>>

(***************************************************************************)
(* C20: while a frame is open no handler changes the writer.  The writer   *)
(* gets bytes only from a handler called with no frame open (the '{' of    *)
(* begin_object, written before its push, among them) and from the         *)
(* end_object that pops the last frame, which writes its flush after the   *)
(* pop.                                                                    *)
(***************************************************************************)
\* The last step was a call of a handler of the formatter.
HandlerCalled == last[1] \notin {"new", "to_writer", "to_vec"}

C20_SinkUntouched ==
  HandlerCalled =>
    /\ (prev.stack # <<>> /\ stack # <<>>) => writer = prev.writer
    /\ writer # prev.writer =>
         \/ prev.stack = <<>>
         \/ /\ last[1] = "end_object" /\ Len(prev.stack) = 1 /\ stack = <<>>
            /\ writer = prev.writer \o FrameText(prev.stack[1].object)
    /\ (prev.stack = <<>> /\ stack # <<>>) =>
         last[1] = "begin_object" /\ writer = prev.writer \o <<123>>
    /\ (prev.stack # <<>> /\ stack = <<>>) => last[1] = "end_object"

C20_Witness ==
  /\ last[1] = "write_i32" /\ result = "ok"
  /\ prev.writer = <<91, 49, 44, 123>>
  /\ Len(stack) = 1 /\ stack[1].next_val = <<49>>
  /\ writer = prev.writer

(***************************************************************************)
(* C19: write_raw_fragment parses the fragment and has a Serializer of its *)
(* own, with a new formatter and so an empty stack of its own, write the   *)
(* value into the scope of the caller: the scope gains the bytes of the    *)
(* fragment's value as to_vec writes them (no whitespace, objects in the   *)
(* map's order, one member per key), the caller's frames, their flags and  *)
(* maps and the depth stay as they were, and a fragment that is not one    *)
(* JSON value fails with an error and changes nothing.                     *)
(***************************************************************************)
\* What is to be written for each valid sampled fragment.
\* {"a":[2,1],"b":1}
CanonicalObject ==
  <<123, 34, 97, 34, 58, 91, 50, 44, 49, 93, 44, 34, 98, 34, 58, 49, 125>>

\* {"y":"x","z":{"a":null,"b":false}}
CanonicalNested ==
  <<123, 34, 121, 34, 58, 34, 120, 34, 44, 34, 122, 34, 58, 123, 34, 97,
    34, 58, 110, 117, 108, 108, 44, 34, 98, 34, 58, 102, 97, 108, 115, 101,
    125, 125>>

\* "A/\n"
CanonicalEscapes ==
  <<34, 65, 47, 92, 110, 34>>

\* "U+1F600", the char as its four UTF-8 bytes
CanonicalSurrogates ==
  <<34, 240, 159, 152, 128, 34>>

\* 0
CanonicalNegativeZero ==
  <<48>>

\* 1
CanonicalOnePointZero ==
  <<49>>

\* {"a":2}
CanonicalSameKey ==
  <<123, 34, 97, 34, 58, 50, 125>>

RawCanonical(f) ==
  CASE f = RawObject -> CanonicalObject
    [] f = RawNested -> CanonicalNested
    [] f = RawEscapes -> CanonicalEscapes
    [] f = RawSurrogates -> CanonicalSurrogates
    [] f = RawNegativeZero -> CanonicalNegativeZero
    [] f = RawOnePointZero -> CanonicalOnePointZero
    [] f = RawSameKey -> CanonicalSameKey

C19_RawFragment ==
  last[1] = "write_raw_fragment" =>
    IF last[2] \in ValidFragments
    THEN result = "ok" /\ ScopeGained(RawCanonical(last[2]))
    ELSE result = "err" /\ stack = prev.stack /\ writer = prev.writer

C19_Witness ==
  /\ last = <<"write_raw_fragment", RawNested>>
  /\ Len(prev.stack) = 2 /\ prev.stack[2].complete /\ ~prev.stack[1].complete
  /\ stack[2].next_val = CanonicalNested

(***************************************************************************)
(* C11: to_vec is idempotent on what it returns: the bytes to_vec gives    *)
(* for a value parse as JSON, and to_vec of the parsed value gives the     *)
(* same bytes again.                                                       *)
(***************************************************************************)
Reparsed == from_str(writer)

C11_Idempotent ==
  Finished =>
    /\ Reparsed.ok
    /\ Encode(Reparsed.val).res = "ok"
    /\ Encode(Reparsed.val).writer = writer

\* An object that comes out in another order than it was given in, with a
\* nested object, and whose parsed value is not the value given.
C11_Witness ==
  /\ Finished
  /\ value = VObj(<<<<VStr(<<122>>), InnerBA>>, <<VStr(<<121>>), Arr312>>>>)
  /\ Reparsed.ok /\ Reparsed.val # value
  /\ Reparsed.val[2][1][1] = VStr(<<121>>)

=============================================================================
